---- MODULE Spec2Model ----
(***************************************************************************)
(* BAC0 core/io: ReadProperty.read / readMultiple (Read.py) and            *)
(* WriteProperty.write (Write.py) as a state machine.                      *)
(*                                                                         *)
(* One behaviour is one public call.  The Python call stack is the         *)
(* variable stack (read and _split_the_read_request call each other), the  *)
(* BACnet stack behind request_io is the gateway: it resolves every IOCB   *)
(* it was handed with a success payload or with a failure payload.         *)
(***************************************************************************)
EXTENDS Integers, Sequences, FiniteSets, TLC

VARIABLES
    started,    \* self._started
    call,       \* the public call being made: its name and its arguments
    stack,      \* Python frames of read / _split_the_read_request / readMultiple / write
    iocbs,      \* every IOCB handed to request_io, in order, with its outcome
    built,      \* number of request descriptors built so far
    waits,      \* number of iocb.wait() calls that have returned
    splits,     \* number of _split_the_read_request activations so far
    warnings,   \* what log_warning was called about
    devN,       \* the simulated device: the length of its array properties
    result      \* how the public call ended

vars == <<started, call, stack, iocbs, built, waits, splits, warnings, devN, result>>

----------------------------------------------------------------------------
(* Bounds of the model *)

\* largest array length the simulated device reports at array index 0
MaxN == 2
\* Python's recursion limit, counted in frames of read and _split_the_read_request
MaxDepth == 5

----------------------------------------------------------------------------
(* Python values *)

None == [t |-> "None"]
PyInt(n) == [t |-> "int", v |-> n]
\* a float, counted in halves
PyFloat(n) == [t |-> "float", v |-> n]
\* a string the device holds, named by a number
PyStr(n) == [t |-> "str", v |-> n]
\* a string the program spells out
PyName(s) == [t |-> "str", s |-> s]
PyList(s) == [t |-> "list", items |-> s]
\* an instance of a bacpypes class that is not one of Python's own types
PyObj(cls, n) == [t |-> "obj", cls |-> cls, v |-> n]

\* arr_index=None, propertyArrayIndex=None
NoIndex == -1
\* vendor_id=0, the default of read, write and get_datatype
DefaultVendor == 0
\* a vendor that registered a proprietary property of analogValue
OtherVendor == DefaultVendor + 842

----------------------------------------------------------------------------
(* Command tokens: args.split() *)

DigitTokens == {"0", "1", "2", "17", "100", "1234", "16777217"}

\* str.isdigit()
isdigit(tok) == tok \in DigitTokens

\* int(tok) for a token of digits
DigitValue(tok) ==
    CASE tok = "0" -> 0
      [] tok = "1" -> 1
      [] tok = "2" -> 2
      [] tok = "17" -> 17
      [] tok = "100" -> 100
      [] tok = "1234" -> 1234
      [] tok = "16777217" -> 16777217
      [] OTHER -> 0

\* PropertyIdentifier.enumerations: the symbolic property names
PropertyNames ==
    {"presentValue", "units", "eventMessageTexts", "priorityArray",
     "objectList", "all", "required", "optional"}

----------------------------------------------------------------------------
(* The datatype registry of bacpypes: get_object_class, get_datatype *)

NoDatatype == "NoDatatype"

\* get_object_class(obj_type): is there a class registered under that name
get_object_class(objType) == objType \in {"analogValue"}

\* get_datatype(obj_type, prop_id, vendor_id): None when the class or the
\* property is not registered, else the class of the property's value
get_datatype(objType, propId, vendor) ==
    IF ~get_object_class(objType) THEN NoDatatype
    ELSE CASE propId = "presentValue" -> "Real"
           [] propId = "units" -> "EngineeringUnits"
           [] propId = "eventMessageTexts" -> "ArrayOfCharacterString"
           [] propId = "priorityArray" -> "ArrayOfPriorityValue"
           [] propId = "1234" /\ vendor = OtherVendor -> "Unsigned"
           [] OTHER -> NoDatatype

\* issubclass(datatype, Atomic)
IsAtomic(dt) ==
    dt \in {"Real", "Unsigned", "Integer", "CharacterString", "EngineeringUnits"}

\* issubclass(datatype, Array)
IsArray(dt) == dt \in {"ArrayOfCharacterString", "ArrayOfPriorityValue"}

\* datatype.subtype
Subtype(dt) ==
    CASE dt = "ArrayOfCharacterString" -> "CharacterString"
      [] dt = "ArrayOfPriorityValue" -> "PriorityValue"
      [] OTHER -> NoDatatype

----------------------------------------------------------------------------
(* Requests, and the simulated device behind the gateway *)

NoRequest == [svc |-> "none"]

\* the width of the significand of the IEEE single a Real is encoded in
SingleBits == 24

\* the single-precision float nearest to n (ties to even), for n >= 0
Float32(n) ==
    IF n < 2^SingleBits THEN n
    ELSE LET e == CHOOSE k \in 1..(30 - SingleBits) :
                     n < 2^(SingleBits + k) /\ n >= 2^(SingleBits + k - 1)
             q == n \div 2^e
             r == n % 2^e
             up == r > 2^(e - 1) \/ (r = 2^(e - 1) /\ q % 2 = 1)
         IN  (IF up THEN q + 1 ELSE q) * 2^e

\* a cast_in that keeps every float as it is
cast_in_exact(tag, val) == [tag |-> tag, val |-> val]

\* Any().cast_in(value): the value as the class of that tag encodes it
cast_in(tag, val) ==
    [tag |-> tag, val |-> IF tag = "Real" THEN PyFloat(Float32(val.v)) ELSE val]

\* the device holds this property, at this index
DeviceHas(prop, idx) ==
    CASE prop \in {"presentValue", "units", "1234"} -> idx = NoIndex
      [] prop \in {"eventMessageTexts", "priorityArray"} ->
            idx = NoIndex \/ (idx >= 0 /\ idx <= devN)
      [] OTHER -> FALSE

\* what the device holds there, as it encodes it
DeviceValue(prop, idx) ==
    CASE prop = "presentValue" -> cast_in("Real", PyFloat(145))
      [] prop = "units" -> cast_in("EngineeringUnits", PyName("degreesCelsius"))
      [] prop = "1234" -> cast_in("Unsigned", PyInt(7))
      [] prop = "eventMessageTexts" /\ idx = NoIndex ->
            cast_in("ArrayOfCharacterString", PyList([i \in 1..devN |-> PyStr(i)]))
      [] prop = "eventMessageTexts" /\ idx = 0 -> cast_in("Unsigned", PyInt(devN))
      [] prop = "eventMessageTexts" -> cast_in("CharacterString", PyStr(idx))
      [] prop = "priorityArray" /\ idx = NoIndex ->
            cast_in("ArrayOfPriorityValue",
                PyList([i \in 1..devN |-> PyObj("PriorityValue", i)]))
      [] prop = "priorityArray" /\ idx = 0 -> cast_in("Unsigned", PyInt(devN))
      [] prop = "priorityArray" -> cast_in("PriorityValue", PyObj("PriorityValue", idx))
      [] OTHER -> cast_in("Null", None)

\* the element the device holds at index i of an array property
DeviceElement(prop, i) == DeviceValue(prop, i).val

\* Any.cast_out(klass): the value when it was encoded as klass
cast_out(any, klass) ==
    IF any.tag = klass THEN [ok |-> TRUE, val |-> any.val]
    ELSE [ok |-> FALSE, exc |-> "DecodingError"]

----------------------------------------------------------------------------
(* Failure payloads and find_reason *)

\* RejectReason.enumerations, by code
RejectReason(code) ==
    CASE code = 0 -> "other"
      [] code = 4 -> "invalidTag"
      [] code = 9 -> "unrecognizedService"
      [] OTHER -> ""

\* AbortReason.enumerations, by code
AbortReason(code) ==
    CASE code = 0 -> "other"
      [] code = 4 -> "segmentationNotSupported"
      [] OTHER -> ""

\* the failure payloads the gateway resolves a request with
FailurePDUs ==
    {[pduType |-> "abort", code |-> c, errorClass |-> "", errorCode |-> ""] :
        c \in {4, 0, 99}}
    \cup {[pduType |-> "reject", code |-> c, errorClass |-> "", errorCode |-> ""] :
        c \in {4, 9}}
    \cup {[pduType |-> "error", code |-> 0, errorClass |-> "property",
            errorCode |-> "unknownProperty"],
          [pduType |-> "error", code |-> 0, errorClass |-> "",
            errorCode |-> ""]}

\* a find_reason that looks every reason code up in the abort reasons
find_reason_abort_names(apdu) ==
    IF apdu.pduType \in {"reject", "abort"}
    THEN IF AbortReason(apdu.code) # ""
         THEN [ok |-> TRUE, reason |-> PyName(AbortReason(apdu.code))]
         ELSE [ok |-> TRUE, reason |-> PyInt(apdu.code)]
    ELSE IF apdu.errorCode # "" /\ apdu.errorClass # ""
         THEN [ok |-> TRUE, reason |-> PyName(apdu.errorCode)]
         ELSE [ok |-> FALSE, exc |-> "NameError"]

\* find_reason(apdu): the reason, or the exception find_reason raises
find_reason(apdu) ==
    IF apdu.pduType \in {"reject", "abort"}
    THEN LET name == IF apdu.pduType = "reject" THEN RejectReason(apdu.code)
                     ELSE AbortReason(apdu.code)
         IN  IF name # "" THEN [ok |-> TRUE, reason |-> PyName(name)]
             ELSE [ok |-> TRUE, reason |-> PyInt(apdu.code)]
    ELSE IF apdu.errorCode # "" /\ apdu.errorClass # ""
         THEN [ok |-> TRUE, reason |-> PyName(apdu.errorCode)]
         ELSE [ok |-> FALSE, exc |-> "NameError"]

----------------------------------------------------------------------------
(* The request builders *)

\* a builder's outcome: the request, or the exception it raises
Built(req) == [ok |-> TRUE, req |-> req]
Raised(exc, why) == [ok |-> FALSE, exc |-> exc, why |-> why]

\* ReadProperty.build_rp_request(args, arr_index, vendor_id)
build_rp_request(args, arr_index, vendor_id) ==
    IF Len(args) < 4 THEN Raised("ValueError", "not enough values to unpack")
    ELSE LET obj_type == args[2]
             obj_inst == args[3]
             prop_id == args[4]
         IN  IF ~isdigit(obj_type) /\ ~get_object_class(obj_type)
             THEN Raised("ValueError", "unknown object type")
             ELSE IF ~isdigit(obj_inst)
             THEN Raised("ValueError", "invalid literal for int()")
             ELSE IF get_datatype(obj_type, prop_id, vendor_id) = NoDatatype
             THEN Raised("ValueError", "invalid property for object type")
             ELSE IF Len(args) = 5 /\ ~isdigit(args[5])
             THEN Raised("ValueError", "invalid literal for int()")
             ELSE Built([svc |-> "RP", addr |-> args[1],
                         obj |-> obj_type, inst |-> DigitValue(obj_inst),
                         prop |-> prop_id,
                         idx |-> IF Len(args) = 5 THEN DigitValue(args[5])
                                 ELSE arr_index])

\* one property reference of a read access specification
PropertyReference(prop, idx) == [prop |-> prop, idx |-> idx]

\* build_rpm_request, the inner loop: the property references of one object,
\* read from args[i] on.  Yields the references and the place it stopped at.
RECURSIVE rpm_properties(_, _, _, _)
rpm_properties(args, i, obj_type, refs) ==
    IF i > Len(args) \/ args[i] \notin PropertyNames
    THEN [ok |-> TRUE, refs |-> refs, i |-> i]
    ELSE LET prop_id == args[i]
         IN  IF prop_id \notin {"all", "required", "optional"}
                /\ get_datatype(obj_type, prop_id, DefaultVendor) = NoDatatype
             THEN Raised("ValueError", "invalid property for object type")
             ELSE IF i + 1 <= Len(args) /\ isdigit(args[i + 1])
                  THEN rpm_properties(args, i + 2, obj_type,
                         Append(refs, PropertyReference(prop_id, DigitValue(args[i + 1]))))
                  ELSE rpm_properties(args, i + 1, obj_type,
                         Append(refs, PropertyReference(prop_id, NoIndex)))

\* build_rpm_request, the outer loop: the read access specifications from
\* args[i] on
RECURSIVE rpm_specs(_, _, _)
rpm_specs(args, i, specs) ==
    IF i > Len(args) THEN [ok |-> TRUE, specs |-> specs]
    ELSE LET obj_type == args[i]
         IN  IF ~isdigit(obj_type) /\ ~get_object_class(obj_type)
             THEN Raised("ValueError", "unknown object type")
             ELSE IF i + 1 > Len(args)
             THEN Raised("IndexError", "list index out of range")
             ELSE IF ~isdigit(args[i + 1])
             THEN Raised("ValueError", "invalid literal for int()")
             ELSE LET props == rpm_properties(args, i + 2, obj_type, <<>>)
                  IN  IF ~props.ok THEN props
                      ELSE IF props.refs = <<>>
                      THEN Raised("ValueError", "provide at least one property")
                      ELSE rpm_specs(args, props.i,
                             Append(specs, [obj |-> obj_type,
                                            inst |-> DigitValue(args[i + 1]),
                                            props |-> props.refs]))

\* a build_rpm_request that returns a request also without a read access
\* specification
build_rpm_request_unchecked(args) ==
    IF Len(args) < 1 THEN Raised("IndexError", "list index out of range")
    ELSE LET read_access_spec_list == rpm_specs(args, 2, <<>>)
         IN  IF ~read_access_spec_list.ok THEN read_access_spec_list
             ELSE Built([svc |-> "RPM", addr |-> args[1],
                         specs |-> read_access_spec_list.specs])

\* ReadProperty.build_rpm_request(args)
build_rpm_request(args) ==
    IF Len(args) < 1 THEN Raised("IndexError", "list index out of range")
    ELSE LET read_access_spec_list == rpm_specs(args, 2, <<>>)
         IN  IF ~read_access_spec_list.ok THEN read_access_spec_list
             ELSE IF read_access_spec_list.specs = <<>>
             THEN Raised("RuntimeError",
                         "at least one read access specification required")
             ELSE Built([svc |-> "RPM", addr |-> args[1],
                         specs |-> read_access_spec_list.specs])

\* priority = None
NoPriority == -1

\* a priority brought into the range of BACnet priorities
wp_priority_clamped(token) ==
    IF DigitValue(token) < 1 THEN 1
    ELSE IF DigitValue(token) > 16 THEN 16
    ELSE DigitValue(token)

\* build_wp_request: priority = int(args[6])
wp_priority(token) == DigitValue(token)

\* a constructor that takes the value token of an integer as the string it is
atomic_value_unparsed(datatype, value) ==
    IF datatype = "Real"
    THEN [ok |-> TRUE, val |-> cast_in("Real", PyFloat(2 * DigitValue(value)))]
    ELSE [ok |-> TRUE, val |-> cast_in(datatype, PyName(value))]

\* the constructor of a primitive class applied to the value token:
\* datatype(value), after int(value) or float(value) where the code parses
atomic_value(datatype, value) ==
    CASE datatype \in {"Integer", "Unsigned"} ->
            IF isdigit(value)
            THEN [ok |-> TRUE, val |-> cast_in(datatype, PyInt(DigitValue(value)))]
            ELSE Raised("ValueError", "invalid literal for int()")
      [] datatype = "Real" ->
            IF isdigit(value)
            THEN [ok |-> TRUE, val |-> cast_in("Real", PyFloat(2 * DigitValue(value)))]
            ELSE Raised("ValueError", "could not convert string to float")
      [] datatype = "EngineeringUnits" ->
            IF value = "degreesCelsius"
            THEN [ok |-> TRUE, val |-> cast_in(datatype, PyName(value))]
            ELSE Raised("ValueError", "undefined enumeration")
      [] OTHER -> [ok |-> TRUE, val |-> cast_in(datatype, PyName(value))]

\* build_wp_request, the value coercion: the encodeable value for the value
\* token, or the exception raised
wp_value(value, datatype, indx) ==
    IF value = "null" THEN [ok |-> TRUE, val |-> cast_in("Null", None)]
    ELSE IF datatype = NoDatatype
    THEN Raised("TypeError", "issubclass() arg 1 must be a class")
    ELSE IF IsAtomic(datatype) THEN atomic_value(datatype, value)
    ELSE IF IsArray(datatype) /\ indx # NoIndex
    THEN IF indx = 0
         THEN Raised("TypeError", "invalid constructor datatype")
         ELSE IF IsAtomic(Subtype(datatype))
         THEN [ok |-> TRUE, val |-> cast_in(Subtype(datatype), PyName(value))]
         ELSE Raised("TypeError", "invalid result datatype")
    ELSE Raised("TypeError", "invalid result datatype")

\* WriteProperty.build_wp_request(args, vendor_id)
build_wp_request(args, vendor_id) ==
    IF Len(args) < 4 THEN Raised("ValueError", "not enough values to unpack")
    ELSE IF ~isdigit(args[3]) THEN Raised("ValueError", "invalid literal for int()")
    ELSE IF Len(args) < 5 THEN Raised("IndexError", "list index out of range")
    ELSE IF Len(args) >= 6 /\ args[6] # "-" /\ ~isdigit(args[6])
    THEN Raised("ValueError", "invalid literal for int()")
    ELSE IF Len(args) >= 7 /\ ~isdigit(args[7])
    THEN Raised("ValueError", "invalid literal for int()")
    ELSE LET obj_type == args[2]
             prop_id == args[4]
             indx == IF Len(args) >= 6 /\ args[6] # "-" THEN DigitValue(args[6])
                     ELSE NoIndex
             priority == IF Len(args) >= 7 THEN wp_priority(args[7]) ELSE NoPriority
             datatype == get_datatype(obj_type, prop_id, vendor_id)
             value == wp_value(args[5], datatype, indx)
         IN  IF ~value.ok THEN value
             ELSE Built([svc |-> "WP", addr |-> args[1],
                         obj |-> obj_type, inst |-> DigitValue(args[3]),
                         prop |-> prop_id, value |-> value.val,
                         idx |-> indx, priority |-> priority])

----------------------------------------------------------------------------
(* The commands and arguments the public calls are made with *)

Addr == "2:5"

\* read: <addr> <type> <inst> <prop> [ <indx> ], and one that is too short
ReadCommands ==
    LET base == {<<Addr, t, i, p>> :
                    t \in {"analogValue", "bogusType", "1"}, i \in {"1", "x"},
                    p \in {"presentValue", "eventMessageTexts", "priorityArray",
                           "objectList", "1234"}}
    IN  base \cup {c \o <<x>> : c \in base, x \in {"0", "2", "x"}}
             \cup {<<Addr, "analogValue", "1">>}

\* the arr_index argument of read
ReadArrIndexes == {NoIndex, 0, 1, MaxN + 1}

VendorIds == {DefaultVendor, OtherVendor}

\* the tokens of one object of a readMultiple command: no, one or two
\* property tokens after the object
RpmPropertyTokens ==
    {"presentValue", "units", "eventMessageTexts", "priorityArray", "0", "2"}
RpmGroups ==
    {<<"analogValue", "1">> \o ps :
        ps \in {<<>>} \cup {<<a>> : a \in RpmPropertyTokens}
                      \cup {<<a, b>> : a, b \in RpmPropertyTokens}}
    \cup {<<"bogusType", "1", "presentValue">>, <<"analogValue", "x", "presentValue">>,
          <<"analogValue", "1", "objectList">>, <<"analogValue", "1", "all">>,
          <<"analogValue">>}

\* readMultiple: <addr> ( <type> <inst> ( <prop> [ <indx> ] )... )...
RpmCommands ==
    {<<Addr>>} \cup {<<Addr>> \o g : g \in RpmGroups}
               \cup {<<Addr>> \o g \o h : g, h \in RpmGroups}

\* write: <addr> <type> <inst> <prop> <value> [ <indx> ] [ <priority> ]
WriteCommands ==
    LET base == {<<Addr, t, i, p, v>> :
                    t \in {"analogValue", "bogusType"}, i \in {"1", "x"},
                    p \in {"presentValue", "units", "1234", "eventMessageTexts",
                           "priorityArray", "objectList"},
                    v \in {"100", "16777217", "degreesCelsius", "null", "abc"}}
        indexed == {c \o <<x>> : c \in base, x \in {"-", "0", "2", "x"}}
    IN  base \cup indexed
             \cup {c \o <<q>> : c \in indexed, q \in {"0", "1", "17", "x"}}
             \cup {<<Addr, "analogValue", "1", "presentValue">>}

----------------------------------------------------------------------------
(* Frames, IOCBs and the outcome of the call *)

NoPayload == [kind |-> "none"]

\* IOCB(request): neither ioResponse nor ioError is set yet
IOCB(request) == [req |-> request, ioResponse |-> NoPayload, ioError |-> NoPayload]

Resolved(iocb) == iocb.ioResponse # NoPayload \/ iocb.ioError # NoPayload

\* the requests handed to request_io that the gateway has not resolved yet
InFlight == {k \in 1..Len(iocbs) : ~Resolved(iocbs[k])}

\* a new activation of fn
Frame(fn, arr_index, vendor_id) ==
    [fn |-> fn, pc |-> "entry", arr_index |-> arr_index, vendor_id |-> vendor_id,
     req |-> NoRequest, iocb |-> 0,
     nmbr_obj |-> 0, i |-> 0, objlist |-> <<>>, retval |-> None]

Top == stack[Len(stack)]
At(fn, pc) == stack # <<>> /\ Top.fn = fn /\ Top.pc = pc
SetTop(stk, f) == [stk EXCEPT ![Len(stk)] = f]
Pop(stk) == SubSeq(stk, 1, Len(stk) - 1)

NoResult == [kind |-> "none"]
Returned(v) == [kind |-> "return", val |-> v]
RaisedError(exc) == [kind |-> "raise", exc |-> exc]
Done == result # NoResult

\* the top frame of stk returns v: to the frame below it, or to the caller
\* of the public call
Return(stk, v) ==
    IF Len(stk) = 1
    THEN stack' = <<>> /\ result' = Returned(v)
    ELSE /\ stack' = SetTop(stk, [stk[Len(stk)] EXCEPT !.pc = "return", !.retval = v])
         /\ UNCHANGED result

\* an exception no frame handles: it unwinds the whole stack
Raise(exc) == stack' = <<>> /\ result' = RaisedError(exc)

\* a call from the top frame of stk, which Python refuses past its recursion limit
Invoke(stk, frame) ==
    IF Len(stk) >= MaxDepth THEN Raise("RecursionError")
    ELSE stack' = Append(stk, frame) /\ UNCHANGED result

Init ==
    /\ started \in BOOLEAN
    /\ devN \in 0..MaxN
    /\ call = [op |-> "none"]
    /\ stack = <<>>
    /\ iocbs = <<>>
    /\ built = 0
    /\ waits = 0
    /\ splits = 0
    /\ warnings = {}
    /\ result = NoResult

Idle == call.op = "none"

\* bacnet.read(args, arr_index, vendor_id)
CallRead ==
    /\ Idle
    /\ \E args \in ReadCommands, arr_index \in ReadArrIndexes, vendor_id \in VendorIds :
          /\ call' = [op |-> "read", args |-> args, arr_index |-> arr_index,
                      vendor_id |-> vendor_id]
          /\ stack' = <<Frame("read", arr_index, vendor_id)>>
    /\ UNCHANGED <<started, iocbs, built, waits, splits, warnings, devN, result>>

\* bacnet.readMultiple(args)
CallReadMultiple ==
    /\ Idle
    /\ \E args \in RpmCommands :
          /\ call' = [op |-> "readMultiple", args |-> args, arr_index |-> NoIndex,
                      vendor_id |-> DefaultVendor]
          /\ stack' = <<Frame("readMultiple", NoIndex, DefaultVendor)>>
    /\ UNCHANGED <<started, iocbs, built, waits, splits, warnings, devN, result>>

\* bacnet.write(args, vendor_id)
CallWrite ==
    /\ Idle
    /\ \E args \in WriteCommands, vendor_id \in VendorIds :
          /\ call' = [op |-> "write", args |-> args, arr_index |-> NoIndex,
                      vendor_id |-> vendor_id]
          /\ stack' = <<Frame("write", NoIndex, vendor_id)>>
    /\ UNCHANGED <<started, iocbs, built, waits, splits, warnings, devN, result>>

----------------------------------------------------------------------------
(* The gateway: request_io resolves an IOCB with a success or a failure *)

\* a success payload of a class the caller does not expect
OtherAck == [kind |-> "ComplexAckPDU"]
SimpleAckPDU == [kind |-> "SimpleAckPDU"]

\* the device knows the object the request names
DeviceObject(obj) == obj = "analogValue"

\* the ReadPropertyACK of the device for a ReadPropertyRequest
ReadPropertyACK(req) ==
    [kind |-> "ReadPropertyACK", obj |-> req.obj, inst |-> req.inst,
     prop |-> req.prop, idx |-> req.idx, value |-> DeviceValue(req.prop, req.idx)]

\* the properties the device reports for a property reference
RECURSIVE Expand(_)
Expand(refs) ==
    IF refs = <<>> THEN <<>>
    ELSE LET r == Head(refs)
         IN  (CASE r.prop = "all" ->
                     <<PropertyReference("presentValue", NoIndex),
                       PropertyReference("units", NoIndex)>>
                [] r.prop = "required" -> <<PropertyReference("presentValue", NoIndex)>>
                [] r.prop = "optional" -> <<PropertyReference("units", NoIndex)>>
                [] OTHER -> <<r>>) \o Expand(Tail(refs))

\* the places <<object, property>> of the results of a ReadPropertyMultipleACK
ResultPlaces(req) ==
    UNION {{<<g, e>> : e \in 1..Len(Expand(req.specs[g].props))} :
              g \in 1..Len(req.specs)}

\* the ReadPropertyMultipleACK of the device, with a propertyAccessError at
\* the places in errs and wherever the device holds nothing
ReadPropertyMultipleACK(req, errs) ==
    [kind |-> "ReadPropertyMultipleACK",
     listOfReadAccessResults |->
        [g \in 1..Len(req.specs) |->
            LET spec == req.specs[g]
                refs == Expand(spec.props)
            IN  [obj |-> spec.obj, inst |-> spec.inst,
                 listOfResults |->
                    [e \in 1..Len(refs) |->
                        LET held == DeviceObject(spec.obj)
                                    /\ DeviceHas(refs[e].prop, refs[e].idx)
                            err == <<g, e>> \in errs \/ ~held
                        IN  [prop |-> refs[e].prop, idx |-> refs[e].idx,
                             propertyAccessError |-> err,
                             propertyValue |->
                                IF err THEN cast_in("Null", None)
                                ELSE DeviceValue(refs[e].prop, refs[e].idx)]]]]]

\* the success payloads the gateway may resolve a request with
SuccessPayloads(req) ==
    CASE req.svc = "RP" ->
            {OtherAck} \cup
            (IF DeviceObject(req.obj) /\ DeviceHas(req.prop, req.idx)
             THEN {ReadPropertyACK(req)} ELSE {})
      [] req.svc = "RPM" ->
            {OtherAck} \cup
            {ReadPropertyMultipleACK(req, errs) : errs \in SUBSET ResultPlaces(req)}
      [] req.svc = "WP" -> {SimpleAckPDU, OtherAck}
      [] OTHER -> {}

\* the BACnet stack completes a request: iocb.ioResponse is set
GatewayResponse ==
    /\ \E k \in InFlight :
          \E apdu \in SuccessPayloads(iocbs[k].req) :
             iocbs' = [iocbs EXCEPT ![k].ioResponse = apdu]
    /\ UNCHANGED <<started, call, stack, built, waits, splits, warnings, devN, result>>

\* the BACnet stack aborts a request: iocb.ioError is set
GatewayError ==
    /\ \E k \in InFlight :
          \E apdu \in FailurePDUs :
             iocbs' = [iocbs EXCEPT ![k].ioError = apdu]
    /\ UNCHANGED <<started, call, stack, built, waits, splits, warnings, devN, result>>

----------------------------------------------------------------------------
(* ReadProperty.read *)

\* the exceptions the except clause of read handles
ReadHandled(exc) == exc = "ReadPropertyException"

\* a decoding without the special case for array parts
read_value_plain(apdu, vendor_id) ==
    LET datatype == get_datatype(apdu.obj, apdu.prop, vendor_id)
    IN  IF datatype = NoDatatype THEN Raised("TypeError", "unknown datatype")
        ELSE cast_out(apdu.value, datatype)

\* read, the decoding of a ReadPropertyACK: the value, or the exception raised
read_value(apdu, vendor_id) ==
    LET datatype == get_datatype(apdu.obj, apdu.prop, vendor_id)
    IN  IF datatype = NoDatatype THEN Raised("TypeError", "unknown datatype")
        ELSE IF IsArray(datatype) /\ apdu.idx # NoIndex
        THEN IF apdu.idx = 0 THEN cast_out(apdu.value, "Unsigned")
             ELSE cast_out(apdu.value, Subtype(datatype))
        ELSE cast_out(apdu.value, datatype)

\* read without the check of self._started
ReadEntryUnguarded ==
    /\ At("read", "entry")
    /\ stack' = SetTop(stack, [Top EXCEPT !.pc = "build"])
    /\ UNCHANGED <<started, call, iocbs, built, waits, splits, warnings, devN, result>>

\* read: the stack must be started
ReadEntry ==
    /\ At("read", "entry")
    /\ IF ~started THEN Raise("ApplicationNotStarted")
       ELSE stack' = SetTop(stack, [Top EXCEPT !.pc = "build"]) /\ UNCHANGED result
    /\ UNCHANGED <<started, call, iocbs, built, waits, splits, warnings, devN>>

\* read: build_rp_request inside the try block
ReadBuild ==
    /\ At("read", "build")
    /\ built' = built + 1
    /\ LET b == build_rp_request(call.args, Top.arr_index, Top.vendor_id)
       IN  IF b.ok
           THEN /\ stack' = SetTop(stack, [Top EXCEPT !.pc = "submit", !.req = b.req])
                /\ UNCHANGED result
           ELSE IF ReadHandled(b.exc) THEN Raise("UnboundLocalError")
           ELSE Raise(b.exc)
    /\ UNCHANGED <<started, call, iocbs, waits, splits, warnings, devN>>

\* read: deferred(request_io, iocb)
ReadSubmit ==
    /\ At("read", "submit")
    /\ iocbs' = Append(iocbs, IOCB(Top.req))
    /\ stack' = SetTop(stack, [Top EXCEPT !.pc = "wait", !.iocb = Len(iocbs) + 1])
    /\ UNCHANGED <<started, call, built, waits, splits, warnings, devN, result>>

\* a wait that returns before the gateway has resolved the IOCB
WaitOverEarly(iocb) == TRUE

\* iocb.wait() returns once the gateway has resolved the IOCB
WaitOver(iocb) == Resolved(iocb)

\* read: iocb.wait()
ReadWait ==
    /\ At("read", "wait")
    /\ WaitOver(iocbs[Top.iocb])
    /\ waits' = waits + 1
    /\ stack' = SetTop(stack, [Top EXCEPT !.pc = "respond"])
    /\ UNCHANGED <<started, call, iocbs, built, splits, warnings, devN, result>>

\* read: if iocb.ioResponse
ReadResponse ==
    /\ At("read", "respond")
    /\ iocbs[Top.iocb].ioResponse # NoPayload
    /\ LET apdu == iocbs[Top.iocb].ioResponse
           value == read_value(apdu, Top.vendor_id)
       IN  IF apdu.kind # "ReadPropertyACK"
           THEN Return(stack, None) /\ warnings' = warnings \cup {"APDU"}
           ELSE /\ IF value.ok THEN Return(stack, value.val) ELSE Raise(value.exc)
                /\ UNCHANGED warnings
    /\ UNCHANGED <<started, call, iocbs, built, waits, splits, devN>>

\* a failure branch that starts the fallback on every abort reason it knows
read_failure_any_abort(reason) ==
    IF reason \in {PyName("segmentationNotSupported"), PyName("other")}
    THEN [fallback |-> TRUE, warning |-> {}]
    ELSE [fallback |-> FALSE, exc |-> "NoResponseFromController",
          warning |-> IF reason = PyName("unknownProperty")
                      THEN {"Unknown property"} ELSE {}]

\* a failure branch that does not single out unknownProperty
read_failure_silent(reason) ==
    IF reason = PyName("segmentationNotSupported")
    THEN [fallback |-> TRUE, warning |-> {}]
    ELSE [fallback |-> FALSE, exc |-> "NoResponseFromController", warning |-> {}]

\* read, the failure branch: what the call does for a reason
read_failure(reason) ==
    IF reason = PyName("segmentationNotSupported")
    THEN [fallback |-> TRUE, warning |-> {}]
    ELSE [fallback |-> FALSE, exc |-> "NoResponseFromController",
          warning |-> IF reason = PyName("unknownProperty")
                      THEN {"Unknown property"} ELSE {}]

\* read: if iocb.ioError, and the end of the function after it
ReadError ==
    /\ At("read", "respond")
    /\ iocbs[Top.iocb].ioResponse = NoPayload
    /\ LET apdu == iocbs[Top.iocb].ioError
           found == find_reason(apdu)
           outcome == read_failure(found.reason)
       IN  IF apdu = NoPayload
           THEN Return(stack, None) /\ UNCHANGED <<splits, warnings>>
           ELSE IF ~found.ok
           THEN Raise(found.exc) /\ UNCHANGED <<splits, warnings>>
           ELSE IF outcome.fallback
           THEN /\ Invoke(SetTop(stack, [Top EXCEPT !.pc = "fallback"]),
                          Frame("_split_the_read_request", Top.arr_index, DefaultVendor))
                /\ splits' = IF Len(stack) >= MaxDepth THEN splits ELSE splits + 1
                /\ UNCHANGED warnings
           ELSE /\ Raise(outcome.exc)
                /\ warnings' = warnings \cup outcome.warning
                /\ UNCHANGED splits
    /\ UNCHANGED <<started, call, iocbs, built, waits, devN>>

\* read: return value, with the list _split_the_read_request returned
ReadFallbackReturn ==
    /\ At("_split_the_read_request", "return")
    /\ Len(stack) >= 2
    /\ stack[Len(stack) - 1].fn = "read"
    /\ stack[Len(stack) - 1].pc = "fallback"
    /\ Return(Pop(stack), Top.retval)
    /\ UNCHANGED <<started, call, iocbs, built, waits, splits, warnings, devN>>

----------------------------------------------------------------------------
(* ReadProperty._split_the_read_request *)

\* the frame of _split_the_read_request that called the read on top of it
Caller == stack[Len(stack) - 1]
ReadReturnedTo(pc) ==
    /\ At("read", "return")
    /\ Len(stack) >= 2
    /\ Caller.fn = "_split_the_read_request"
    /\ Caller.pc = pc

\* the arr_index of the follow-up read that asks for the element count
CountIndex == 0

\* the arr_index of the k-th element read
ElementIndex(k) == k

\* _split_the_read_request: objlist = [], the call of self.read(args, arr_index=0)
SplitStart ==
    /\ At("_split_the_read_request", "entry")
    /\ Invoke(SetTop(stack, [Top EXCEPT !.pc = "count"]),
              Frame("read", CountIndex, DefaultVendor))
    /\ UNCHANGED <<started, call, iocbs, built, waits, splits, warnings, devN>>

\* _split_the_read_request: nmbr_obj is bound and the loop is entered
SplitCount ==
    /\ ReadReturnedTo("count")
    /\ LET nmbr_obj == Top.retval
           below == Pop(stack)
       IN  IF nmbr_obj.t # "int" THEN Raise("TypeError")
           ELSE IF nmbr_obj.v >= 1
           THEN Invoke(SetTop(below, [Caller EXCEPT !.pc = "element", !.i = 1,
                                                    !.nmbr_obj = nmbr_obj.v]),
                       Frame("read", ElementIndex(1), DefaultVendor))
           ELSE Return(below, PyList(<<>>))
    /\ UNCHANGED <<started, call, iocbs, built, waits, splits, warnings, devN>>

\* _split_the_read_request: objlist.append(...) and the next turn of the loop
SplitElement ==
    /\ ReadReturnedTo("element")
    /\ LET objlist == Append(Caller.objlist, Top.retval)
           below == Pop(stack)
       IN  IF Caller.i < Caller.nmbr_obj
           THEN Invoke(SetTop(below, [Caller EXCEPT !.i = Caller.i + 1,
                                                    !.objlist = objlist]),
                       Frame("read", ElementIndex(Caller.i + 1), DefaultVendor))
           ELSE Return(below, PyList(objlist))
    /\ UNCHANGED <<started, call, iocbs, built, waits, splits, warnings, devN>>

----------------------------------------------------------------------------
(* ReadProperty.readMultiple *)

\* the exceptions the except clause of readMultiple handles
RpmHandled(exc) == exc = "ReadPropertyMultipleException"

\* readMultiple, the decoding of one result element: the value, or the
\* exception raised
rpm_value(objectIdentifier, element) ==
    LET datatype == get_datatype(objectIdentifier, element.prop, DefaultVendor)
    IN  IF datatype = NoDatatype THEN Raised("TypeError", "unknown datatype")
        ELSE IF IsArray(datatype) /\ element.idx # NoIndex
        THEN IF element.idx = 0 THEN cast_out(element.propertyValue, "Unsigned")
             ELSE cast_out(element.propertyValue, Subtype(datatype))
        ELSE cast_out(element.propertyValue, datatype)

\* readMultiple, the two loops over apdu.listOfReadAccessResults, from
\* element e of result g on: how they end, and with which values
RECURSIVE rpm_loop(_, _, _, _)
rpm_loop(results, g, e, values) ==
    IF g > Len(results) THEN [end |-> "exhausted", values |-> values]
    ELSE IF e > Len(results[g].listOfResults) THEN rpm_loop(results, g + 1, 1, values)
    ELSE LET element == results[g].listOfResults[e]
             value == rpm_value(results[g].obj, element)
         IN  IF element.propertyAccessError THEN rpm_loop(results, g, e + 1, values)
             ELSE IF ~value.ok THEN [end |-> "raise", exc |-> value.exc]
             ELSE [end |-> "return", values |-> Append(values, value.val)]

\* readMultiple: the stack must be started
RpmEntry ==
    /\ At("readMultiple", "entry")
    /\ IF ~started THEN Raise("ApplicationNotStarted")
       ELSE stack' = SetTop(stack, [Top EXCEPT !.pc = "build"]) /\ UNCHANGED result
    /\ UNCHANGED <<started, call, iocbs, built, waits, splits, warnings, devN>>

\* readMultiple: build_rpm_request inside the try block
RpmBuild ==
    /\ At("readMultiple", "build")
    /\ built' = built + 1
    /\ LET b == build_rpm_request(call.args)
       IN  IF b.ok
           THEN /\ stack' = SetTop(stack, [Top EXCEPT !.pc = "submit", !.req = b.req])
                /\ UNCHANGED result
           ELSE IF RpmHandled(b.exc) THEN Raise("UnboundLocalError")
           ELSE Raise(b.exc)
    /\ UNCHANGED <<started, call, iocbs, waits, splits, warnings, devN>>

\* readMultiple: deferred(request_io, iocb)
RpmSubmit ==
    /\ At("readMultiple", "submit")
    /\ iocbs' = Append(iocbs, IOCB(Top.req))
    /\ stack' = SetTop(stack, [Top EXCEPT !.pc = "wait", !.iocb = Len(iocbs) + 1])
    /\ UNCHANGED <<started, call, built, waits, splits, warnings, devN, result>>

\* readMultiple: iocb.wait()
RpmWait ==
    /\ At("readMultiple", "wait")
    /\ WaitOver(iocbs[Top.iocb])
    /\ waits' = waits + 1
    /\ stack' = SetTop(stack, [Top EXCEPT !.pc = "respond"])
    /\ UNCHANGED <<started, call, iocbs, built, splits, warnings, devN, result>>

\* readMultiple: if iocb.ioResponse
RpmResponse ==
    /\ At("readMultiple", "respond")
    /\ iocbs[Top.iocb].ioResponse # NoPayload
    /\ LET apdu == iocbs[Top.iocb].ioResponse
           loop == rpm_loop(apdu.listOfReadAccessResults, 1, 1, <<>>)
       IN  IF apdu.kind # "ReadPropertyMultipleACK"
           THEN Return(stack, None) /\ warnings' = warnings \cup {"- not an ack", "APDU"}
           ELSE /\ CASE loop.end = "return" -> Return(stack, PyList(loop.values))
                     [] loop.end = "raise" -> Raise(loop.exc)
                     [] OTHER -> Return(stack, None)
                /\ UNCHANGED warnings
    /\ UNCHANGED <<started, call, iocbs, built, waits, splits, devN>>

\* a failure branch without the case of segmentationNotSupported
rpm_failure_no_segmentation(reason) ==
    CASE reason = PyName("unrecognizedService") ->
            [raise |-> TRUE, exc |-> "UnrecognizedService", warning |-> {}]
      [] reason = PyName("unknownProperty") ->
            [raise |-> FALSE, values |-> <<PyName("")>>,
             warning |-> {"Unknown property"}]
      [] OTHER ->
            [raise |-> FALSE, values |-> <<PyName("")>>,
             warning |-> {"No response from controller"}]

\* readMultiple, the failure branch: what the call does for a reason
rpm_failure(reason) ==
    CASE reason = PyName("unrecognizedService") ->
            [raise |-> TRUE, exc |-> "UnrecognizedService", warning |-> {}]
      [] reason = PyName("segmentationNotSupported") ->
            [raise |-> TRUE, exc |-> "SegmentationNotSupported", warning |-> {}]
      [] reason = PyName("unknownProperty") ->
            [raise |-> FALSE, values |-> <<PyName("")>>,
             warning |-> {"Unknown property"}]
      [] OTHER ->
            [raise |-> FALSE, values |-> <<PyName("")>>,
             warning |-> {"No response from controller"}]

\* readMultiple: if iocb.ioError, and the end of the function after it
RpmError ==
    /\ At("readMultiple", "respond")
    /\ iocbs[Top.iocb].ioResponse = NoPayload
    /\ LET apdu == iocbs[Top.iocb].ioError
           found == find_reason(apdu)
           outcome == rpm_failure(found.reason)
       IN  IF apdu = NoPayload THEN Return(stack, None) /\ UNCHANGED warnings
           ELSE IF ~found.ok THEN Raise(found.exc) /\ UNCHANGED warnings
           ELSE /\ IF outcome.raise THEN Raise(outcome.exc)
                   ELSE Return(stack, PyList(outcome.values))
                /\ warnings' = warnings \cup outcome.warning
    /\ UNCHANGED <<started, call, iocbs, built, waits, splits, devN>>

----------------------------------------------------------------------------
(* WriteProperty.write *)

\* an except clause that handles every exception of the builder
WriteHandledAll(exc) == TRUE

\* the exceptions the except clause of write handles
WriteHandled(exc) == exc = "WritePropertyException"

\* write: the stack must be started
WriteEntry ==
    /\ At("write", "entry")
    /\ IF ~started THEN Raise("ApplicationNotStarted")
       ELSE stack' = SetTop(stack, [Top EXCEPT !.pc = "build"]) /\ UNCHANGED result
    /\ UNCHANGED <<started, call, iocbs, built, waits, splits, warnings, devN>>

\* write: build_wp_request inside the try block
WriteBuild ==
    /\ At("write", "build")
    /\ built' = built + 1
    /\ LET b == build_wp_request(call.args, Top.vendor_id)
       IN  IF b.ok
           THEN /\ stack' = SetTop(stack, [Top EXCEPT !.pc = "submit", !.req = b.req])
                /\ UNCHANGED result
           ELSE IF WriteHandled(b.exc) THEN Raise("UnboundLocalError")
           ELSE Raise(b.exc)
    /\ UNCHANGED <<started, call, iocbs, waits, splits, warnings, devN>>

\* write: deferred(request_io, iocb)
WriteSubmit ==
    /\ At("write", "submit")
    /\ iocbs' = Append(iocbs, IOCB(Top.req))
    /\ stack' = SetTop(stack, [Top EXCEPT !.pc = "wait", !.iocb = Len(iocbs) + 1])
    /\ UNCHANGED <<started, call, built, waits, splits, warnings, devN, result>>

\* write: iocb.wait()
WriteWait ==
    /\ At("write", "wait")
    /\ WaitOver(iocbs[Top.iocb])
    /\ waits' = waits + 1
    /\ stack' = SetTop(stack, [Top EXCEPT !.pc = "respond"])
    /\ UNCHANGED <<started, call, iocbs, built, splits, warnings, devN, result>>

\* write: if iocb.ioResponse, and the end of the function after it
WriteResponse ==
    /\ At("write", "respond")
    /\ iocbs[Top.iocb].ioResponse # NoPayload
    /\ Return(stack, None)
    /\ warnings' = IF iocbs[Top.iocb].ioResponse.kind # "SimpleAckPDU"
                   THEN warnings \cup {"- not an ack. Write has failed."}
                   ELSE warnings
    /\ UNCHANGED <<started, call, iocbs, built, waits, splits, devN>>

\* a write that takes a failure payload for a completed write
WriteErrorSwallowed ==
    /\ At("write", "respond")
    /\ iocbs[Top.iocb].ioResponse = NoPayload
    /\ Return(stack, None)
    /\ UNCHANGED <<started, call, iocbs, built, waits, splits, warnings, devN>>

\* write: if iocb.ioError, and the end of the function after it
WriteError ==
    /\ At("write", "respond")
    /\ iocbs[Top.iocb].ioResponse = NoPayload
    /\ IF iocbs[Top.iocb].ioError = NoPayload THEN Return(stack, None)
       ELSE Raise("NoResponseFromController")
    /\ UNCHANGED <<started, call, iocbs, built, waits, splits, warnings, devN>>

----------------------------------------------------------------------------

Next ==
    \/ CallRead \/ CallReadMultiple \/ CallWrite
    \/ GatewayResponse \/ GatewayError
    \/ ReadEntry \/ ReadBuild \/ ReadSubmit \/ ReadWait
    \/ ReadResponse \/ ReadError \/ ReadFallbackReturn
    \/ SplitStart \/ SplitCount \/ SplitElement
    \/ RpmEntry \/ RpmBuild \/ RpmSubmit \/ RpmWait \/ RpmResponse \/ RpmError
    \/ WriteEntry \/ WriteBuild \/ WriteSubmit \/ WriteWait
    \/ WriteResponse \/ WriteError

Spec == Init /\ [][Next]_vars

\* request_io resolves every IOCB it was handed
Resolve == GatewayResponse \/ GatewayError

\* the calling thread runs on whenever it has a statement to run
Run ==
    \/ CallRead \/ CallReadMultiple \/ CallWrite
    \/ ReadEntry \/ ReadBuild \/ ReadSubmit \/ ReadWait
    \/ ReadResponse \/ ReadError \/ ReadFallbackReturn
    \/ SplitStart \/ SplitCount \/ SplitElement
    \/ RpmEntry \/ RpmBuild \/ RpmSubmit \/ RpmWait \/ RpmResponse \/ RpmError
    \/ WriteEntry \/ WriteBuild \/ WriteSubmit \/ WriteWait
    \/ WriteResponse \/ WriteError

\* the program under a gateway that resolves every request in the end
FairSpec == Spec /\ WF_vars(Resolve) /\ WF_vars(Run)

----------------------------------------------------------------------------
(* What the claims speak about *)

\* the gateway resolved this IOCB with a failure of this symbolic reason
FailedWith(iocb, name) ==
    /\ iocb.ioError # NoPayload
    /\ find_reason(iocb.ioError).ok
    /\ find_reason(iocb.ioError).reason = PyName(name)

\* the follow-up reads: every request after the direct one
FollowUps == 2..Len(iocbs)

\* the property a read command names
ReadProperty == call.args[4]

\* the elements 1..devN of the device's array, as read decodes them
DeviceArray(prop) == [i \in 1..devN |-> DeviceElement(prop, i)]

\* a single-object read whose direct read failed with segmentationNotSupported
\* while the device answered every follow-up read with what it holds
FallbackScenario ==
    /\ call.op = "read"
    /\ Len(call.args) >= 4
    /\ DeviceObject(call.args[2])
    /\ DeviceHas(ReadProperty, 0)
    /\ Len(iocbs) >= 1
    /\ FailedWith(iocbs[1], "segmentationNotSupported")
    /\ \A k \in FollowUps : iocbs[k].ioResponse.kind = "ReadPropertyACK"

\* C1: a read whose direct read fails with segmentationNotSupported, against
\* a device that answers the index-0 read with its element count N and the
\* read of index i with its element i, returns the list of the N elements
\* in ascending index order, whatever arr_index was passed.
C1_FallbackResult ==
    (Done /\ FallbackScenario) => result = Returned(PyList(DeviceArray(ReadProperty)))

\* The same for commands of four tokens only: no index token overrides the
\* arr_index of the follow-up reads.
FallbackResultFourTokens ==
    (Done /\ FallbackScenario /\ Len(call.args) = 4)
        => result = Returned(PyList(DeviceArray(ReadProperty)))

\* C2: the fallback does not recurse: a read call enters
\* _split_the_read_request at most once, and a segmentationNotSupported
\* failure of a follow-up read ends the call with a raised error.
C2_NoNestedFallback ==
    /\ splits <= 1
    /\ (Done /\ call.op = "read"
            /\ \E k \in FollowUps : FailedWith(iocbs[k], "segmentationNotSupported"))
        => result.kind = "raise"

\* C3: while the stack is not started no descriptor is built, nothing is
\* handed to the gateway, no wait is made, no frame gets past its first
\* statement, and read, readMultiple and write end with ApplicationNotStarted.
C3_NotStarted ==
    ~started =>
        /\ built = 0
        /\ iocbs = <<>>
        /\ waits = 0
        /\ \A k \in 1..Len(stack) : stack[k].pc = "entry"
        /\ Done => result = RaisedError("ApplicationNotStarted")

C3_Witness ==
    /\ ~started
    /\ call.op = "readMultiple"
    /\ result = RaisedError("ApplicationNotStarted")

\* C4: at most one request is in flight: every request but the last one
\* handed to the gateway is resolved, and none is in flight while a frame is
\* about to build or to submit a descriptor.
C4_OneInFlight ==
    /\ Cardinality(InFlight) <= 1
    /\ \A k \in 1..Len(iocbs) : k < Len(iocbs) => Resolved(iocbs[k])
    /\ (stack # <<>> /\ Top.pc \in {"entry", "build", "submit"}) => InFlight = {}

C4_Witness ==
    /\ call.op = "read"
    /\ Len(iocbs) = 3
    /\ InFlight = {3}
    /\ At("read", "wait")

\* C5: a read enters _split_the_read_request exactly when its direct read
\* failed with segmentationNotSupported: follow-up reads and the fallback
\* exist only after such a failure, and once read has handled such a failure
\* the fallback has been entered.
C5_FallbackExactlyOnSegmentation ==
    call.op = "read" =>
        /\ (splits >= 1 \/ Len(iocbs) >= 2)
              => FailedWith(iocbs[1], "segmentationNotSupported")
        /\ (/\ Len(iocbs) >= 1
            /\ FailedWith(iocbs[1], "segmentationNotSupported")
            /\ (Done \/ stack[1].pc \notin {"wait", "respond"}))
              => splits >= 1

C5_Witness ==
    /\ call.op = "read"
    /\ Len(stack) = 2
    /\ stack[1].pc = "fallback"
    /\ Top.fn = "_split_the_read_request"
    /\ splits = 1
    /\ Len(iocbs) = 1

\* the gateway answered a readMultiple with a ReadPropertyMultipleACK
RpmAcknowledged ==
    /\ call.op = "readMultiple"
    /\ Len(iocbs) = 1
    /\ iocbs[1].ioResponse.kind = "ReadPropertyMultipleACK"

\* the result elements of an acknowledgment in traversal order: those of the
\* first object, then those of the second, each with its object
RECURSIVE Traversal(_)
Traversal(results) ==
    IF results = <<>> THEN <<>>
    ELSE [e \in 1..Len(Head(results).listOfResults) |->
             [obj |-> Head(results).obj, element |-> Head(results).listOfResults[e]]]
         \o Traversal(Tail(results))

Elements == Traversal(iocbs[1].ioResponse.listOfReadAccessResults)
AccessError(j) == Elements[j].element.propertyAccessError
Decoded(j) == rpm_value(Elements[j].obj, Elements[j].element)

\* C6: an access error on a property of a ReadPropertyMultipleACK does not
\* make readMultiple raise: the result list has one slot per property, the
\* slot of a property with an access error is absent, and every other
\* property, also after such a one, is decoded into its slot.
C6_AccessErrorSlots ==
    (/\ Done
     /\ RpmAcknowledged
     /\ \E j \in 1..Len(Elements) : AccessError(j)
     /\ \A j \in 1..Len(Elements) : AccessError(j) \/ Decoded(j).ok)
        => IF result.kind # "return" THEN FALSE
           ELSE IF result.val.t # "list" THEN FALSE
           ELSE /\ Len(result.val.items) = Len(Elements)
                /\ \A j \in 1..Len(Elements) :
                      ~AccessError(j) => result.val.items[j] = Decoded(j).val

\* C7: for a ReadPropertyMultipleACK without access errors readMultiple
\* returns one decoded value per property of every object, in traversal
\* order.
C7_AllValuesInTraversalOrder ==
    (/\ Done
     /\ RpmAcknowledged
     /\ \A j \in 1..Len(Elements) : ~AccessError(j) /\ Decoded(j).ok)
        => result = Returned(PyList([j \in 1..Len(Elements) |-> Decoded(j).val]))

\* C8: readMultiple has no fallback: it hands one request at most to the
\* gateway, and when that request fails with segmentationNotSupported the
\* call ends with the raised error SegmentationNotSupported.
C8_RpmSegmentationSurfaced ==
    call.op = "readMultiple" =>
        /\ splits = 0
        /\ Len(iocbs) <= 1
        /\ (Done /\ Len(iocbs) = 1
                 /\ FailedWith(iocbs[1], "segmentationNotSupported"))
              => result = RaisedError("SegmentationNotSupported")

C8_Witness ==
    /\ call.op = "readMultiple"
    /\ Len(iocbs) = 1
    /\ FailedWith(iocbs[1], "segmentationNotSupported")
    /\ result = RaisedError("SegmentationNotSupported")

\* a request of the call failed with unknownProperty
UnknownPropertyFailure ==
    /\ call.op \in {"read", "readMultiple"}
    /\ \E k \in 1..Len(iocbs) : FailedWith(iocbs[k], "unknownProperty")

BuildOf(frame) ==
    CASE frame.fn = "read" ->
            build_rp_request(call.args, frame.arr_index, frame.vendor_id)
      [] frame.fn = "readMultiple" -> build_rpm_request(call.args)
      [] OTHER -> build_wp_request(call.args, frame.vendor_id)

\* the top frame is about to build a descriptor, and the builder will raise
BuildFails == stack # <<>> /\ Top.pc = "build" /\ ~BuildOf(Top).ok

\* C10: a step that builds a descriptor and fails ends the call with the
\* builder's exception: nothing is handed to the gateway, no wait is made,
\* and no step follows the end of the call, so the build is not made again.
C10_ConstructionErrors ==
    [][ /\ ~Done
        /\ BuildFails =>
              /\ result' = RaisedError(BuildOf(Top).exc)
              /\ stack' = <<>>
              /\ built' = built + 1
              /\ iocbs' = iocbs
              /\ waits' = waits
              /\ InFlight = {}
              /\ Len(stack) = 1 => (iocbs = <<>> /\ waits = 0 /\ built = 0) ]_vars

C10_Witness ==
    /\ call.op = "write"
    /\ result = RaisedError("TypeError")
    /\ built = 1
    /\ iocbs = <<>>
    /\ waits = 0

\* the class the decoding rule names for a value of this datatype at this index
DecodeClass(datatype, idx) ==
    IF IsArray(datatype) /\ idx # NoIndex
    THEN IF idx = 0 THEN "Unsigned" ELSE Subtype(datatype)
    ELSE datatype

\* the running frame ends with this decoding: it returns the value to the
\* frame below it or to the caller, or the decoding error is raised
EndsWith(decoded) ==
    IF ~decoded.ok THEN result' = RaisedError(decoded.exc)
    ELSE IF Len(stack) = 1 THEN result' = Returned(decoded.val)
    ELSE /\ Len(stack') = Len(stack)
         /\ stack'[Len(stack)].pc = "return"
         /\ stack'[Len(stack)].retval = decoded.val

\* read is about to decode a ReadPropertyACK of a known datatype
ReadDecodes ==
    /\ At("read", "respond")
    /\ iocbs[Top.iocb].ioResponse.kind = "ReadPropertyACK"
    /\ get_datatype(iocbs[Top.iocb].ioResponse.obj, iocbs[Top.iocb].ioResponse.prop,
                    Top.vendor_id) # NoDatatype

\* the first result element of a ReadPropertyMultipleACK that has no access
\* error: the one readMultiple decodes
FirstValue(elements) ==
    LET js == {j \in 1..Len(elements) : ~elements[j].element.propertyAccessError}
    IN  IF js = {} THEN 0 ELSE CHOOSE j \in js : \A k \in js : j <= k

\* readMultiple is about to decode a result element of a known datatype
RpmDecodes ==
    /\ At("readMultiple", "respond")
    /\ iocbs[Top.iocb].ioResponse.kind = "ReadPropertyMultipleACK"
    /\ FirstValue(Elements) # 0
    /\ get_datatype(Elements[FirstValue(Elements)].obj,
                    Elements[FirstValue(Elements)].element.prop,
                    DefaultVendor) # NoDatatype

\* C11: read and readMultiple decode a success response carrying array
\* index 0 of an array property as an unsigned integer, one carrying another
\* index with the element type of the array, and one without an index with
\* the datatype of the property.
C11_DecodingRule ==
    [][ /\ ReadDecodes =>
              LET apdu == iocbs[Top.iocb].ioResponse
                  datatype == get_datatype(apdu.obj, apdu.prop, Top.vendor_id)
              IN  EndsWith(cast_out(apdu.value, DecodeClass(datatype, apdu.idx)))
        /\ RpmDecodes =>
              LET first == Elements[FirstValue(Elements)]
                  datatype == get_datatype(first.obj, first.element.prop, DefaultVendor)
                  decoded == cast_out(first.element.propertyValue,
                                      DecodeClass(datatype, first.element.idx))
              IN  /\ decoded.ok
                  /\ result' = Returned(PyList(<<decoded.val>>)) ]_vars

\* a read of index 0 of an array of PriorityValue returned the array length
C11_Witness ==
    /\ call.op = "read"
    /\ Len(iocbs) = 1
    /\ iocbs[1].ioResponse.kind = "ReadPropertyACK"
    /\ iocbs[1].ioResponse.prop = "priorityArray"
    /\ iocbs[1].ioResponse.idx = 0
    /\ devN = MaxN
    /\ result = Returned(PyInt(MaxN))

\* the failure payloads of the requests made so far that are reject or abort PDUs
RejectsAndAborts ==
    {iocbs[k].ioError : k \in {j \in 1..Len(iocbs) : iocbs[j].ioError # NoPayload}}
        \cap {apdu \in FailurePDUs : apdu.pduType \in {"reject", "abort"}}

\* the name of a reason code in the enumeration of the PDU's own type
ReasonName(apdu) ==
    IF apdu.pduType = "reject" THEN RejectReason(apdu.code) ELSE AbortReason(apdu.code)

\* C12: for a reject or an abort PDU find_reason does not fail: it returns
\* the name its reason code has among the reject reasons for a reject and
\* among the abort reasons for an abort, and the code itself, as a number,
\* when no name has that code.  The call whose last request failed so did
\* not end with an error of find_reason.
C12_RejectAbortReason ==
    /\ \A apdu \in RejectsAndAborts :
          /\ find_reason(apdu).ok
          /\ find_reason(apdu).reason =
                IF ReasonName(apdu) # "" THEN PyName(ReasonName(apdu))
                ELSE PyInt(apdu.code)
    /\ (Done /\ iocbs # <<>> /\ {iocbs[Len(iocbs)].ioError} \subseteq RejectsAndAborts)
          => result # RaisedError("NameError")

\* a read ended after an abort whose reason code has no name and after a
\* reject whose code names another reason among the abort reasons
C12_Witness ==
    /\ call.op = "read"
    /\ Len(iocbs) = 2
    /\ {iocbs[1].ioError, iocbs[2].ioError} \subseteq RejectsAndAborts
    /\ iocbs[1].ioError.pduType = "abort"
    /\ iocbs[1].ioError.code = 4
    /\ iocbs[2].ioError.pduType = "reject"
    /\ iocbs[2].ioError.code = 4
    /\ result = RaisedError("NoResponseFromController")

\* find_reason returned the raw code of an abort that has no name
C12_RawCode ==
    /\ call.op = "readMultiple"
    /\ Len(iocbs) = 1
    /\ iocbs[1].ioError # NoPayload
    /\ iocbs[1].ioError.pduType = "abort"
    /\ AbortReason(iocbs[1].ioError.code) = ""
    /\ find_reason(iocbs[1].ioError).reason = PyInt(iocbs[1].ioError.code)
    /\ result = Returned(PyList(<<PyName("")>>))

\* the failure payloads of the requests made so far that are error responses
ErrorResponses ==
    {iocbs[k].ioError : k \in {j \in 1..Len(iocbs) : iocbs[j].ioError # NoPayload}}
        \cap {apdu \in FailurePDUs : apdu.pduType = "error"}

\* C13: for an application error response find_reason does not raise: it
\* returns the name of the error code when the response has both an error
\* class and an error code, and the unknown-error reason otherwise.
C13_ErrorReason ==
    \A apdu \in ErrorResponses :
        /\ find_reason(apdu).ok
        /\ find_reason(apdu).reason =
              IF apdu.errorCode # "" /\ apdu.errorClass # ""
              THEN PyName(apdu.errorCode)
              ELSE PyName("UnKnown Error...")

\* The part of C13 the code keeps: an error response with both an error
\* class and an error code is classified by the name of its error code.
ErrorReasonWithClassAndCode ==
    \A apdu \in ErrorResponses :
        (apdu.errorCode # "" /\ apdu.errorClass # "")
            => find_reason(apdu) = [ok |-> TRUE, reason |-> PyName(apdu.errorCode)]

WriteRequest == iocbs[1].req

\* a write of a value token other than null to a property of an atomic
\* datatype has been built and handed to the gateway
AtomicWrite ==
    /\ call.op = "write"
    /\ Len(iocbs) = 1
    /\ call.args[5] # "null"
    /\ IsAtomic(get_datatype(WriteRequest.obj, WriteRequest.prop, call.vendor_id))

\* the value a token denotes for a datatype
TokenValue(datatype, token) ==
    CASE datatype \in {"Integer", "Unsigned"} -> PyInt(DigitValue(token))
      [] datatype = "Real" -> PyFloat(2 * DigitValue(token))
      [] OTHER -> PyName(token)

\* the value of the write request as read decodes it from the
\* acknowledgment of a read of the same property
ReadBack ==
    read_value([kind |-> "ReadPropertyACK", obj |-> WriteRequest.obj,
                inst |-> WriteRequest.inst, prop |-> WriteRequest.prop,
                idx |-> WriteRequest.idx, value |-> WriteRequest.value],
               call.vendor_id)

\* the value written, as its token denotes it
Original ==
    TokenValue(get_datatype(WriteRequest.obj, WriteRequest.prop, call.vendor_id),
               call.args[5])

Representable(v) == v.t = "float" => Float32(v.v) = v.v

Priorities == 1..16

\* a write command with a priority token that is a number outside 1..16
PriorityOutOfRange ==
    /\ call.op = "write"
    /\ Len(call.args) >= 7
    /\ isdigit(call.args[7])
    /\ DigitValue(call.args[7]) \notin Priorities

\* the same command with a priority inside the range
WithPriorityOne == [call.args EXCEPT ![7] = "1"]

\* C16: a priority token that is a number outside 1..16 is not rejected: the
\* build succeeds or fails as it does with the priority 1, the descriptor it
\* returns carries the number of the token as its priority, and that
\* descriptor is the one handed to the gateway.
C16_PriorityPassthrough ==
    PriorityOutOfRange =>
        LET b == build_wp_request(call.args, call.vendor_id)
        IN  /\ b.ok = build_wp_request(WithPriorityOne, call.vendor_id).ok
            /\ b.ok => b.req.priority = DigitValue(call.args[7])
            /\ (b.ok /\ started /\ (Done \/ At("write", "wait") \/ At("write", "respond")))
                  => (Len(iocbs) = 1 /\ iocbs[1].req = b.req)
            /\ \A k \in 1..Len(iocbs) :
                  iocbs[k].req.priority = DigitValue(call.args[7])

\* a write with the priority 17 was handed to the gateway and acknowledged
C16_Witness ==
    /\ call.op = "write"
    /\ Len(call.args) = 7
    /\ call.args[7] = "17"
    /\ Len(iocbs) = 1
    /\ iocbs[1].req.priority = 17
    /\ iocbs[1].ioResponse = SimpleAckPDU
    /\ result = Returned(None)

\* a read in the fallback: its direct read failed with
\* segmentationNotSupported and the device acknowledged every follow-up read
\* it has answered so far
FallbackUnderway ==
    /\ call.op = "read"
    /\ Len(call.args) >= 4
    /\ Len(iocbs) >= 1
    /\ FailedWith(iocbs[1], "segmentationNotSupported")
    /\ \A k \in FollowUps :
          Resolved(iocbs[k]) => iocbs[k].ioResponse.kind = "ReadPropertyACK"

\* the element count the index-0 read was answered with
CountRead == iocbs[2].ioResponse.value.val

\* the follow-up reads are a read of index 0 and then reads of 1, 2, ... of
\* the property the command names, and once the count is known no more of
\* them than the count, and exactly as many when the call has ended
FallbackSequence ==
    /\ \A k \in FollowUps :
          /\ iocbs[k].req.svc = "RP"
          /\ iocbs[k].req.obj = call.args[2]
          /\ iocbs[k].req.prop = call.args[4]
          /\ iocbs[k].req.idx = k - 2
    /\ (Len(iocbs) >= 2 /\ Resolved(iocbs[2])) =>
          /\ CountRead.t = "int"
          /\ Len(iocbs) <= 2 + CountRead.v
          /\ Done => Len(iocbs) = 2 + CountRead.v
    /\ Done => Len(iocbs) >= 2

\* C17: in the fallback of a read command of four tokens or of five, the
\* requests handed to the gateway after the direct read are a read of array
\* index 0 and then exactly N reads of the indices 1, 2, ..., N in that
\* order, N being the value decoded from the index-0 read, and no other.
C17_FallbackSequence == FallbackUnderway => FallbackSequence

\* The same for commands of four tokens read with the default vendor_id
\* only: no index token overrides the arr_index of the follow-up reads, and
\* the vendor_id that the follow-up reads are not given is not missed.
FallbackSequenceFourTokens ==
    (FallbackUnderway /\ Len(call.args) = 4 /\ call.vendor_id = DefaultVendor)
        => FallbackSequence

\* The same for commands read with the default vendor_id, of four tokens or
\* of five.
FallbackSequenceDefaultVendor ==
    (FallbackUnderway /\ call.vendor_id = DefaultVendor) => FallbackSequence

\* a fallback of a four-token command that read index 0 and then 1..MaxN
FallbackSequenceFourTokensReached ==
    /\ FallbackUnderway
    /\ Len(call.args) = 4
    /\ call.vendor_id = DefaultVendor
    /\ Done
    /\ Len(iocbs) = 2 + MaxN

\* a write command that build_wp_request parses up to the lookup of the
\* datatype, for which get_datatype finds none
WriteWithoutDatatype ==
    /\ call.op = "write"
    /\ Len(call.args) >= 5
    /\ isdigit(call.args[3])
    /\ Len(call.args) >= 6 => (call.args[6] = "-" \/ isdigit(call.args[6]))
    /\ Len(call.args) >= 7 => isdigit(call.args[7])
    /\ get_datatype(call.args[2], call.args[4], call.vendor_id) = NoDatatype

\* the construction error of build_rp_request for a property without datatype
UnsupportedProperty == Raised("ValueError", "invalid property for object type")

\* C18: for a write command whose object type, property and vendor_id have
\* no datatype, whatever the value token, null included, build_wp_request
\* fails with the error build_rp_request fails with for such a property, and
\* no write request is built or handed to the gateway.
C18_WriteUnsupportedProperty ==
    WriteWithoutDatatype =>
        /\ build_wp_request(call.args, call.vendor_id) = UnsupportedProperty
        /\ iocbs = <<>>

\* What the code keeps of C18: with a value token other than null the build
\* fails, with a TypeError, and nothing is handed to the gateway.
WriteWithoutDatatypeFails ==
    (WriteWithoutDatatype /\ call.args[5] # "null") =>
        /\ ~build_wp_request(call.args, call.vendor_id).ok
        /\ build_wp_request(call.args, call.vendor_id).exc = "TypeError"
        /\ iocbs = <<>>
        /\ Done => result = RaisedError(IF started THEN "TypeError"
                                        ELSE "ApplicationNotStarted")

\* a write of null to a property without datatype was handed to the gateway
WriteNullWithoutDatatypeSubmitted ==
    /\ WriteWithoutDatatype
    /\ call.args[5] = "null"
    /\ Len(iocbs) = 1
    /\ iocbs[1].req.prop = "objectList"
    /\ iocbs[1].req.value = cast_in("Null", None)

\* a write command with an index, of a value other than null, to a property
\* whose datatype is an array
IndexedArrayWrite ==
    /\ call.op = "write"
    /\ Len(call.args) >= 6
    /\ isdigit(call.args[3])
    /\ isdigit(call.args[6])
    /\ Len(call.args) >= 7 => isdigit(call.args[7])
    /\ call.args[5] # "null"
    /\ IsArray(get_datatype(call.args[2], call.args[4], call.vendor_id))

\* the element type of the array the command writes to
ElementType == Subtype(get_datatype(call.args[2], call.args[4], call.vendor_id))

\* the outcome of build_wp_request for the command
WriteBuilt == build_wp_request(call.args, call.vendor_id)

\* a write to another index than 0: the value is encoded as the element
\* type when that is atomic, and the build fails with a TypeError otherwise,
\* a value token never being an instance of the element type
ElementWrite ==
    DigitValue(call.args[6]) # 0 =>
        IF IsAtomic(ElementType)
        THEN WriteBuilt.ok /\ WriteBuilt.req.value.tag = ElementType
        ELSE ~WriteBuilt.ok /\ WriteBuilt.exc = "TypeError"

\* C19: for a write with an index to an array property, of a value other
\* than null, index 0 makes build_wp_request encode the value as an unsigned
\* integer, the new length of the array; another index makes it encode the
\* value as the element type when that is atomic, and fail with a type
\* mismatch when it is not.
C19_ArrayWriteCoercion ==
    IndexedArrayWrite =>
        /\ (DigitValue(call.args[6]) = 0 /\ isdigit(call.args[5])) =>
              /\ WriteBuilt.ok
              /\ WriteBuilt.req.value = cast_in("Unsigned", PyInt(DigitValue(call.args[5])))
        /\ ElementWrite

\* What the code keeps of C19: the writes to another index than 0.
ArrayElementWriteCoercion == IndexedArrayWrite => ElementWrite

\* a write of 100 to index 0 of an array ended with the TypeError of the build
ArrayLengthWriteRaises ==
    /\ IndexedArrayWrite
    /\ call.args[5] = "100"
    /\ call.args[6] = "0"
    /\ result = RaisedError("TypeError")
    /\ iocbs = <<>>

\* a write to index 2 of an array of strings was handed to the gateway
ArrayElementWriteSubmitted ==
    /\ IndexedArrayWrite
    /\ call.args[6] = "2"
    /\ Len(iocbs) = 1
    /\ iocbs[1].req.value.tag = "CharacterString"
    /\ iocbs[1].req.idx = 2

\* the construction errors of build_rpm_request
MissingPropertyList == Raised("ValueError", "provide at least one property")
MissingReadSpec ==
    Raised("RuntimeError", "at least one read access specification required")

\* the outcome of build_rpm_request for the command
RpmBuilt == build_rpm_request(call.args)

\* a descriptor with an object group at least, and a property reference at
\* least in every group
NonEmptyDescriptor(req) ==
    /\ Len(req.specs) >= 1
    /\ \A g \in 1..Len(req.specs) : Len(req.specs[g].props) >= 1

\* a token that names an object type
ObjectToken(tok) == ~isdigit(tok) /\ get_object_class(tok)

\* a token that names a property build_rpm_request accepts for the object type
PropertyToken(objType, tok) ==
    \/ tok \in {"all", "required", "optional"}
    \/ tok \in PropertyNames /\ get_datatype(objType, tok, DefaultVendor) # NoDatatype

\* the tokens a..b are an object type, an instance and property tokens, each
\* with an index after it or without
ObjectGroup(a, b) ==
    /\ b >= a + 2
    /\ ObjectToken(call.args[a])
    /\ isdigit(call.args[a + 1])
    /\ PropertyToken(call.args[a], call.args[a + 2])
    /\ \A j \in (a + 3)..b :
          \/ PropertyToken(call.args[a], call.args[j])
          \/ isdigit(call.args[j]) /\ PropertyToken(call.args[a], call.args[j - 1])

\* the tokens from a on start an object group without a property
EmptyGroupAt(a) ==
    /\ a + 1 <= Len(call.args)
    /\ ObjectToken(call.args[a])
    /\ isdigit(call.args[a + 1])
    /\ a + 2 <= Len(call.args) => call.args[a + 2] \notin PropertyNames

\* the first object group of the command, or the one after a first object
\* group, is without a property
ZeroProperties ==
    \/ EmptyGroupAt(2)
    \/ \E a \in 5..Len(call.args) : ObjectGroup(2, a - 1) /\ EmptyGroupAt(a)

\* C20: a descriptor that build_rpm_request returns, and so every one that
\* readMultiple hands to the gateway, has an object group at least and a
\* property reference at least in every group; a command with an object
\* group without a property fails with the missing-property-list error, the
\* command of an address alone with the missing-read-spec error.
C20_RpmDescriptor ==
    call.op = "readMultiple" =>
        /\ RpmBuilt.ok => NonEmptyDescriptor(RpmBuilt.req)
        /\ \A k \in 1..Len(iocbs) : NonEmptyDescriptor(iocbs[k].req)
        /\ ZeroProperties => RpmBuilt = MissingPropertyList
        /\ Len(call.args) = 1 => RpmBuilt = MissingReadSpec
        /\ (Done /\ started /\ ~RpmBuilt.ok)
              => (result = RaisedError(RpmBuilt.exc) /\ iocbs = <<>>)

\* a descriptor of two object groups, the second with two property
\* references, was handed to the gateway
C20_Witness ==
    /\ call.op = "readMultiple"
    /\ Len(iocbs) = 1
    /\ Len(iocbs[1].req.specs) = 2
    /\ Len(iocbs[1].req.specs[2].props) = 2

\* a command whose second object group has no property ended with the
\* missing-property-list error
MissingPropertyListReached ==
    /\ call.op = "readMultiple"
    /\ call.args = <<Addr, "analogValue", "1", "eventMessageTexts", "2",
                      "analogValue", "1">>
    /\ ZeroProperties
    /\ ~EmptyGroupAt(2)
    /\ result = RaisedError("ValueError")

\* the command of an address alone ended with the missing-read-spec error
MissingReadSpecReached ==
    /\ call.op = "readMultiple"
    /\ call.args = <<Addr>>
    /\ result = RaisedError("RuntimeError")

\* a read call is being made
ReadCalled == call.op = "read"

\* the element count of the array the read command names
ElementCount == devN

\* the number of requests one read call may hand to the gateway: the direct
\* read, the read of index 0 and one read for each element
RequestsBounded == ReadCalled => Len(iocbs) <= ElementCount + 2

\* every read call ends: it returns or it raises
ReadTerminates == ReadCalled ~> Done

\* C21: under a gateway that resolves every request it was handed, with a
\* success or with a failure, every read call ends by returning or by
\* raising, whatever the device answers, and it hands no more than N + 2
\* requests to the gateway, N being the element count of the array.
C21_ReadTerminatesBounded == ReadTerminates /\ []RequestsBounded

\* What the code keeps of C21 as long as no follow-up read fails with
\* segmentationNotSupported: no more than N + 2 requests.
RequestsBoundedUnnested == (ReadCalled /\ splits <= 1) => Len(iocbs) <= ElementCount + 2

\* a read call in which every read the device answered failed with
\* segmentationNotSupported ended at the recursion limit
RecursionLimitReached ==
    /\ ReadCalled
    /\ Len(iocbs) >= 2
    /\ \A k \in 1..Len(iocbs) : FailedWith(iocbs[k], "segmentationNotSupported")
    /\ result = RaisedError("RecursionError")
    /\ Len(iocbs) > ElementCount + 2

====
